---- MODULE Spec2Model ----
(***************************************************************************)
(* Daily prompt rotation of MindNotes (core/prompt_service.py): the prompt *)
(* catalog (DailyPrompt, PostgreSQL), the per-user daily sets              *)
(* (DailyPromptSetMongo), the responses (PromptResponseMongo), the Django  *)
(* cache in front of today's set, and the operations of PromptService.     *)
(***************************************************************************)
EXTENDS Integers, Sequences, FiniteSets, Bags, TLC

(***************************************************************************)
(* Bounds of the model.  BatchSize and ReplenishCount are 5 and 20 in the  *)
(* source (prompt_service.py:59,75 and :61); the model is parametric in    *)
(* them and is checked with the small values below.                        *)
(***************************************************************************)
BatchSize == 2
ReplenishCount == 2
MaxSets == 2
MaxResponses == 2
MaxDay == 2
MaxPool == 5
MaxCount == 4
StreakDays == 4
MaxBatchLen == 2
CapSlack == 5
MaxPicks == 5

\* Number of prompts the dashboard puts into a set it creates (3 in the
\* source, services.py:699), scaled like BatchSize.
DashboardCount == 2

\* TTL indexes of the two collections, in days (7776000 s and 31536000 s).
SetTTLDays == 90
ResponseTTLDays == 365

\* Safety limit of the loop of get_user_streak.
StreakLimit == 365

Users == {1, 2}

\* prompt.category is None
NoCategory == "None"

\* PromptCategory rows with is_active = True.
ActiveCategories == {"Gratitude"}

\* A sample of the template library: one template with the {time_period}
\* placeholder, one without.
PromptTemplates ==
    << [text |-> "What unexpected moment brought you joy ", placeholder |-> TRUE],
       [text |-> "What skill are you grateful to possess?", placeholder |-> FALSE] >>

TimePeriods == {"today", "this week"}

\* The curated prompt bank before any dynamic prompt exists; the second
\* prompt has been soft-deleted (Model.delete sets is_active = False).
CuratedPrompts ==
    << [question |-> "What are you grateful for?", category |-> "Gratitude", is_active |-> TRUE],
       [question |-> "What did you learn?", category |-> "Growth", is_active |-> FALSE],
       [question |-> "What is on your mind?", category |-> NoCategory, is_active |-> TRUE] >>

\* The bank holds one active prompt (sizes 2) or two (size 3).
InitialCatalogSizes == {2, 3}

None == [none |-> TRUE]

VARIABLES
    catalog,      \* DailyPrompt table: row i has id i
    sets,         \* daily_prompt_sets collection, in insertion order
    responses,    \* prompt_responses collection, a bag of documents
    cache,        \* Django cache: user -> cached set of today, or None
    today,        \* date.today()
    ret,          \* what the last service call returned or raised, and logged
    answered,     \* history: every <<user, prompt id, day>> submitted with success
    proc          \* the requests in flight: process -> its position and locals

vars == <<catalog, sets, responses, cache, today, ret, answered, proc>>

----------------------------------------------------------------------------
(* Helpers *)

Range(s) == {s[i] : i \in DOMAIN s}

\* All orderings of a finite set as sequences (random.shuffle of a list).
Perms(S) ==
    {f \in [1..Cardinality(S) -> S] : \A i, j \in 1..Cardinality(S) : i # j => f[i] # f[j]}

\* min(a, b)
Min2(a, b) == IF a <= b THEN a ELSE b

RemoveAt(s, i) == [j \in 1..(Len(s) - 1) |-> IF j < i THEN s[j] ELSE s[j + 1]]

\* prompt.category.name if prompt.category else 'General'
CatName(cat, id) ==
    IF cat[id].category = NoCategory THEN "General" ELSE cat[id].category

----------------------------------------------------------------------------
(* _generate_dynamic_prompts and its helpers *)

\* Variant of NextTemplateChoices that offers every template at every pick.
NextTemplateChoicesAny(used) == [from |-> DOMAIN PromptTemplates, used |-> used]

\* _select_next_template: the templates that may be picked and the used-set
\* the pick is added to (cleared when every template has been used).
NextTemplateChoices(used) ==
    LET available == {t \in DOMAIN PromptTemplates : t \notin used}
    IN  IF available = {}
        THEN [from |-> DOMAIN PromptTemplates, used |-> {}]
        ELSE [from |-> available, used |-> used]

\* _format_question_from_template: the questions a template can become.
FormatQuestion(t) ==
    IF PromptTemplates[t].placeholder
    THEN {PromptTemplates[t].text \o p : p \in TimePeriods}
    ELSE {PromptTemplates[t].text}

QuestionExists(cat, q) == \E i \in DOMAIN cat : cat[i].question = q

\* Variant of CreatePromptIfUnique without the exists() test.
CreatePromptAlways(cat, q, c) ==
    Append(cat, [question |-> q, category |-> c, is_active |-> TRUE])

\* _create_prompt_if_unique: the catalog after the call.
CreatePromptIfUnique(cat, q, c) ==
    IF QuestionExists(cat, q)
    THEN cat
    ELSE Append(cat, [question |-> q, category |-> c, is_active |-> TRUE])

\* categories = list(active PromptCategory) or [None]
CategoryChoices == IF ActiveCategories = {} THEN {NoCategory} ELSE ActiveCategories

\* One iteration of the loop of _generate_dynamic_prompts from the loop state
\* s = [catalog, used, created]: every state the random choices can lead to.
DynamicStep(s) ==
    LET ch == NextTemplateChoices(s.used)
        after(t, q, c) ==
            LET c2 == CreatePromptIfUnique(s.catalog, q, c)
            IN  [catalog |-> c2,
                 used |-> ch.used \cup {t},
                 created |-> IF Len(c2) > Len(s.catalog)
                             THEN s.created \cup {Len(c2)} ELSE s.created]
    IN  UNION {UNION {{after(t, q, c) : c \in CategoryChoices}
                      : q \in FormatQuestion(t)} : t \in ch.from}

RECURSIVE DynamicLoop(_, _)
DynamicLoop(S, n) ==
    IF n = 0 THEN S ELSE DynamicLoop(UNION {DynamicStep(s) : s \in S}, n - 1)

\* Variant of GenerateDynamicPrompts that reports every iteration as a
\* created prompt.
GenerateDynamicPromptsCountAll(cat, count) ==
    {[catalog |-> s.catalog, created |-> s.created,
      log |-> << [level |-> "INFO", msg |-> "Generating", n |-> count],
                 [level |-> "INFO", msg |-> "Created", n |-> count] >>]
        : s \in DynamicLoop({[catalog |-> cat, used |-> {}, created |-> {}]}, count)}

\* _generate_dynamic_prompts(user, count): every [catalog, created, log] the
\* call can end with, started on catalog cat; log holds its two logger.info
\* records.
GenerateDynamicPrompts(cat, count) ==
    {[catalog |-> s.catalog, created |-> s.created,
      log |-> << [level |-> "INFO", msg |-> "Generating", n |-> count],
                 [level |-> "INFO", msg |-> "Created", n |-> Cardinality(s.created)] >>]
        : s \in DynamicLoop({[catalog |-> cat, used |-> {}, created |-> {}]}, count)}

----------------------------------------------------------------------------
(* _select_diverse_prompts *)

\* by_category: the candidates of one category name.
Group(cat, ids, name) == {i \in ids : CatName(cat, i) = name}

CategoryNames(cat, ids) == {CatName(cat, i) : i \in ids}

\* Variant of FirstPass that picks among all remaining candidates instead of
\* the candidates of the category at hand.
RECURSIVE FirstPassAnyCategory(_, _, _, _, _)
FirstPassAnyCategory(cat, ids, order, k, count) ==
    IF k = 0 THEN {{}}
    ELSE LET before == FirstPassAnyCategory(cat, ids, order, k - 1, count)
         IN  UNION {IF Cardinality(sel) >= count
                    THEN {sel}
                    ELSE {sel \cup {p} : p \in ids \ sel}
                    : sel \in before}

\* First pass: walk the shuffled categories, picking one random prompt of
\* each until count prompts are selected.  Returns the possible selections.
RECURSIVE FirstPass(_, _, _, _, _)
FirstPass(cat, ids, order, k, count) ==
    \* the selections possible after the first k categories of order
    IF k = 0 THEN {{}}
    ELSE LET before == FirstPass(cat, ids, order, k - 1, count)
         IN  UNION {IF Cardinality(sel) >= count
                    THEN {sel}
                    ELSE {sel \cup {p} : p \in Group(cat, ids, order[k])}
                    : sel \in before}

\* Variant of SecondPass that adds nothing to the first pass.
SecondPassNothing(ids, S, count) == S

\* Second pass: while short of count, pick at random among what remains.
RECURSIVE SecondPass(_, _, _)
SecondPass(ids, S, count) ==
    LET done == {sel \in S : Cardinality(sel) >= count \/ ids \ sel = {}}
        more == UNION {{sel \cup {p} : p \in ids \ sel} : sel \in S \ done}
    IN  IF S = done THEN S ELSE done \cup SecondPass(ids, more, count)

\* _select_diverse_prompts(prompts_list, count): every list it can return.
\* prompts_list is a sequence of catalog ids.
SelectDiversePrompts(cat, prompts_list, count) ==
    IF Len(prompts_list) <= count
    THEN {prompts_list}
    ELSE LET ids == Range(prompts_list)
             names == CategoryNames(cat, ids)
             first == UNION {FirstPass(cat, ids, order, Len(order), count)
                             : order \in Perms(names)}
         IN  UNION {Perms(sel) : sel \in SecondPass(ids, first, count)}

----------------------------------------------------------------------------
(* The stores *)

\* Variant of SetsOf that matches the sets of the user of any date.
SetsOfAnyDate(u, d) == {i \in DOMAIN sets : sets[i].user_id = u}

\* DailyPromptSetMongo.objects(user_id=u, date=d): positions in the collection.
SetsOf(u, d) == {i \in DOMAIN sets : sets[i].user_id = u /\ sets[i].date = d}

\* .first(): the earliest inserted match.
FirstSetOf(u, d) == CHOOSE i \in SetsOf(u, d) : \A j \in SetsOf(u, d) : i <= j

\* {r.prompt_id for r in PromptResponseMongo.objects(user_id=u)}
UsedPromptIds(u) == {r.prompt_id : r \in {x \in BagToSet(responses) : x.user_id = u}}

\* Variant of AvailablePrompts without the is_active filter.
AvailablePromptsAnyStatus(cat, used) == {i \in DOMAIN cat : i \notin used}

\* DailyPrompt.objects.filter(is_active=True).exclude(id__in=used)
AvailablePrompts(cat, used) == {i \in DOMAIN cat : cat[i].is_active /\ i \notin used}

\* Meta.ordering of DailyPrompt starts with the category (by name, no
\* category last); the order inside a category is left to the database.
CategoryOrder == <<"Gratitude", "Growth", NoCategory>>

CategoryRank(c) == CHOOSE k \in DOMAIN CategoryOrder : CategoryOrder[k] = c

\* list(available_prompts): every list the query can give.
AvailableLists(cat, used) ==
    {l \in Perms(AvailablePrompts(cat, used)) :
        \A i, j \in DOMAIN l :
            i < j => CategoryRank(cat[l[i]].category) <= CategoryRank(cat[l[j]].category)}

\* prompts_data: the snapshot stored in the set.
PromptsData(cat, selected) ==
    [k \in DOMAIN selected |->
        [id |-> selected[k],
         question |-> cat[selected[k]].question,
         category |-> CatName(cat, selected[k])]]

NewPromptSet(u, d, prompts_data) ==
    [user_id |-> u, date |-> d, prompts |-> prompts_data,
     completed_prompt_ids |-> <<>>, completed_count |-> 0,
     is_fully_completed |-> FALSE, generated_at |-> today]

PromptIds(ps) == {ps.prompts[k].id : k \in DOMAIN ps.prompts}

NoCache == [u \in Users |-> None]

----------------------------------------------------------------------------
(* PromptService.generate_daily_prompts(user, date.today()) *)

\* Lines 56-69: the catalog after the availability check, replenished when
\* fewer than BatchSize unanswered active prompts are available, with what
\* the replenisher logged.
Replenished(cat, used) ==
    IF Cardinality(AvailablePrompts(cat, used)) < BatchSize
    THEN {[catalog |-> g.catalog, log |-> g.log]
            : g \in GenerateDynamicPrompts(cat, ReplenishCount)}
    ELSE {[catalog |-> cat, log |-> <<>>]}

\* Lines 50-100: every [catalog, set, log] the call can build for user u whose
\* answered prompts are used.
BuildPromptSet(u, used) ==
    UNION {UNION {{[catalog |-> r.catalog,
                    set |-> NewPromptSet(u, today, PromptsData(r.catalog, sel)),
                    log |-> r.log]
                   : sel \in SelectDiversePrompts(r.catalog, l, BatchSize)}
                  : l \in AvailableLists(r.catalog, used)}
           : r \in Replenished(catalog, used)}

GenerateReturn(ps, log) == [op |-> "generate_daily_prompts", value |-> ps, log |-> log]

\* Variant of generate_daily_prompts without the lookup of an existing set.
GenerateWithoutLookup(u) ==
    /\ Len(sets) < MaxSets
    /\ \E o \in BuildPromptSet(u, UsedPromptIds(u)) :
         /\ catalog' = o.catalog
         /\ sets' = Append(sets, o.set)
         /\ ret' = GenerateReturn(o.set, o.log)
    /\ UNCHANGED <<responses, cache, today, answered, proc>>

\* The whole call, run without interruption.
generate_daily_prompts(u) ==
    /\ IF SetsOf(u, today) # {}
       THEN /\ ret' = GenerateReturn(sets[FirstSetOf(u, today)], <<>>)
            /\ UNCHANGED <<catalog, sets>>
       ELSE /\ Len(sets) < MaxSets
            /\ \E o \in BuildPromptSet(u, UsedPromptIds(u)) :
                 /\ catalog' = o.catalog
                 /\ sets' = Append(sets, o.set)
                 /\ ret' = GenerateReturn(o.set, o.log)
    /\ UNCHANGED <<responses, cache, today, answered, proc>>

(* PromptService.get_today_prompts(user) *)
get_today_prompts(u) ==
    /\ IF cache[u] # None
       THEN /\ ret' = [op |-> "get_today_prompts", value |-> cache[u], log |-> <<>>]
            /\ UNCHANGED <<catalog, sets, cache>>
       ELSE IF SetsOf(u, today) # {}
       THEN /\ cache' = [cache EXCEPT ![u] = sets[FirstSetOf(u, today)]]
            /\ ret' = [op |-> "get_today_prompts",
                       value |-> sets[FirstSetOf(u, today)], log |-> <<>>]
            /\ UNCHANGED <<catalog, sets>>
       ELSE /\ Len(sets) < MaxSets
            /\ \E o \in BuildPromptSet(u, UsedPromptIds(u)) :
                 /\ catalog' = o.catalog
                 /\ sets' = Append(sets, o.set)
                 /\ cache' = [cache EXCEPT ![u] = o.set]
                 /\ ret' = [op |-> "get_today_prompts", value |-> o.set, log |-> o.log]
    /\ UNCHANGED <<responses, today, answered, proc>>

----------------------------------------------------------------------------
(* PromptService.submit_prompt_response(user, prompt_id, ...) *)

SubmitRaises(msg) ==
    /\ ret' = [op |-> "submit_prompt_response", value |-> [error |-> msg], log |-> <<>>]
    /\ UNCHANGED <<catalog, sets, responses, cache, today, answered, proc>>

\* Variant of CompletionUpdate without the membership test of line 208.
CompletionUpdateAlways(ps, pid) ==
    [ps EXCEPT
        !.completed_prompt_ids = Append(@, pid),
        !.completed_count = @ + 1,
        !.is_fully_completed =
            IF ps.completed_count + 1 >= Len(ps.prompts) THEN TRUE ELSE @]

\* Variant of CompletionUpdate with > for >= in line 214.
CompletionUpdateStrict(ps, pid) ==
    IF pid \notin Range(ps.completed_prompt_ids)
    THEN [ps EXCEPT
            !.completed_prompt_ids = Append(@, pid),
            !.completed_count = @ + 1,
            !.is_fully_completed =
                IF ps.completed_count + 1 > Len(ps.prompts) THEN TRUE ELSE @]
    ELSE ps

\* Variant of CompletionUpdate that also drops the answered prompt from the
\* prompts list.
CompletionUpdateDropsPrompt(ps, pid) ==
    IF pid \notin Range(ps.completed_prompt_ids)
    THEN [ps EXCEPT
            !.prompts = SelectSeq(@, LAMBDA p : p.id # pid),
            !.completed_prompt_ids = Append(@, pid),
            !.completed_count = @ + 1,
            !.is_fully_completed =
                IF ps.completed_count + 1 >= Len(ps.prompts) THEN TRUE ELSE @]
    ELSE ps

\* Variant of CompletionUpdate that appends the id without counting it.
CompletionUpdateNoCount(ps, pid) ==
    IF pid \notin Range(ps.completed_prompt_ids)
    THEN [ps EXCEPT !.completed_prompt_ids = Append(@, pid)]
    ELSE ps

\* Lines 207-215: the completion update of the loaded set.
CompletionUpdate(ps, pid) ==
    IF pid \notin Range(ps.completed_prompt_ids)
    THEN [ps EXCEPT
            !.completed_prompt_ids = Append(@, pid),
            !.completed_count = @ + 1,
            !.is_fully_completed =
                IF ps.completed_count + 1 >= Len(ps.prompts) THEN TRUE ELSE @]
    ELSE ps

\* Variant of PromptInSet that only asks whether the prompt exists.
PromptInCatalog(ps, pid) == pid \in DOMAIN catalog

\* any(p['id'] == prompt_id for p in prompt_set.prompts)
PromptInSet(ps, pid) == \E k \in DOMAIN ps.prompts : ps.prompts[k].id = pid

SubmitReturn(ps) ==
    [op |-> "submit_prompt_response",
     value |-> [completed_count |-> ps.completed_count,
                total_prompts |-> Len(ps.prompts),
                is_fully_completed |-> ps.is_fully_completed],
     log |-> <<>>]

submit_prompt_response(u, pid) ==
    IF SetsOf(u, today) = {}
    THEN SubmitRaises("No prompt set found for today")
    ELSE LET i == FirstSetOf(u, today)
             ps == sets[i]
         IN  IF ~PromptInSet(ps, pid)
             THEN SubmitRaises("Prompt not in today's set")
             ELSE /\ BagCardinality(responses) < MaxResponses
                  /\ responses' = responses (+)
                        SetToBag({[user_id |-> u, prompt_id |-> pid, responded_at |-> today]})
                  /\ sets' = [sets EXCEPT ![i] = CompletionUpdate(ps, pid)]
                  /\ cache' = [cache EXCEPT ![u] = None]
                  /\ ret' = SubmitReturn(CompletionUpdate(ps, pid))
                  /\ answered' = answered \cup {<<u, pid, today>>}
                  /\ UNCHANGED <<catalog, today, proc>>

----------------------------------------------------------------------------
(* The environment: the clock, the cache timeout and the TTL monitors *)

\* The next calendar day; every cache entry (timeout 3600 s, key holding the
\* date) is gone by then.
NextDay ==
    /\ today < MaxDay
    /\ today' = today + 1
    /\ cache' = NoCache
    /\ UNCHANGED <<catalog, sets, responses, ret, answered, proc>>

\* The service is not used for as long as one of the TTLs.
LongIdle ==
    /\ today <= MaxDay
    /\ \E d \in {SetTTLDays, ResponseTTLDays} : today' = today + d
    /\ cache' = NoCache
    /\ UNCHANGED <<catalog, sets, responses, ret, answered, proc>>

\* cache.set(cache_key, prompt_set, 3600) runs out.
CacheTimeout(u) ==
    /\ cache[u] # None
    /\ cache' = [cache EXCEPT ![u] = None]
    /\ UNCHANGED <<catalog, sets, responses, today, ret, answered, proc>>

\* TTL index on generated_at of daily_prompt_sets.
ExpireSet(i) ==
    /\ i \in DOMAIN sets
    /\ sets[i].generated_at + SetTTLDays <= today
    /\ sets' = RemoveAt(sets, i)
    /\ UNCHANGED <<catalog, responses, cache, today, ret, answered, proc>>

\* TTL index on responded_at of prompt_responses.
ExpireResponse(r) ==
    /\ BagIn(r, responses)
    /\ r.responded_at + ResponseTTLDays <= today
    /\ responses' = responses (-) SetToBag({r})
    /\ UNCHANGED <<catalog, sets, cache, today, ret, answered, proc>>

----------------------------------------------------------------------------
(* The service used by one request at a time *)

Procs == {"p1", "p2"}

Idle == [pc |-> "idle"]

Init ==
    /\ \E n \in InitialCatalogSizes : catalog = SubSeq(CuratedPrompts, 1, n)
    /\ sets = <<>>
    /\ responses = EmptyBag
    /\ cache = NoCache
    /\ today = 1
    /\ ret = [op |-> "none"]
    /\ answered = {}
    /\ proc = [p \in Procs |-> Idle]

\* Prompt ids a caller may send: every id of the catalog and one unknown id.
PromptIdInputs == 1..(Len(catalog) + 1)

Next ==
    \/ \E u \in Users : generate_daily_prompts(u)
    \/ \E u \in Users : \E pid \in PromptIdInputs : submit_prompt_response(u, pid)
    \/ NextDay

Spec == Init /\ [][Next]_vars

----------------------------------------------------------------------------
(* The cache in front of today's set: the service with get_today_prompts *)

CacheNext ==
    \/ Next
    \/ \E u \in Users : get_today_prompts(u)
    \/ \E u \in Users : CacheTimeout(u)

CacheSpec == Init /\ [][CacheNext]_vars

----------------------------------------------------------------------------
(* The service over a long time: documents reach the TTL of their collection *)

LongNext ==
    \/ generate_daily_prompts(1)
    \/ \E pid \in PromptIdInputs : submit_prompt_response(1, pid)
    \/ LongIdle
    \/ \E i \in DOMAIN sets : ExpireSet(i)
    \/ \E r \in BagToSet(responses) : ExpireResponse(r)

LongSpec == Init /\ [][LongNext]_vars

----------------------------------------------------------------------------
(* Concurrent requests: generate_daily_prompts between its storage calls *)

\* Lines 34-40: the lookup of the existing set.
GenCheck(p, u) ==
    /\ proc[p] = Idle
    /\ IF SetsOf(u, today) # {}
       THEN /\ ret' = GenerateReturn(sets[FirstSetOf(u, today)], <<>>)
            /\ UNCHANGED proc
       ELSE /\ proc' = [proc EXCEPT ![p] = [pc |-> "history", user |-> u]]
            /\ UNCHANGED ret
    /\ UNCHANGED <<catalog, sets, responses, cache, today, answered>>

\* Lines 43-47: the user's response history.
GenHistory(p) ==
    /\ proc[p].pc = "history"
    /\ proc' = [proc EXCEPT ![p] = [pc |-> "select", user |-> proc[p].user,
                                    used |-> UsedPromptIds(proc[p].user)]]
    /\ UNCHANGED <<catalog, sets, responses, cache, today, ret, answered>>

\* Lines 50-89: the catalog queries, the replenishment and the selection.
GenSelect(p) ==
    /\ proc[p].pc = "select"
    /\ \E o \in BuildPromptSet(proc[p].user, proc[p].used) :
         /\ catalog' = o.catalog
         /\ proc' = [proc EXCEPT ![p] = [pc |-> "save", user |-> proc[p].user,
                                         set |-> o.set, log |-> o.log]]
    /\ UNCHANGED <<sets, responses, cache, today, ret, answered>>

\* Lines 92-103: prompt_set.save() inserts the document.
GenSave(p) ==
    /\ proc[p].pc = "save"
    /\ Len(sets) < MaxSets
    /\ sets' = Append(sets, proc[p].set)
    /\ ret' = GenerateReturn(proc[p].set, proc[p].log)
    /\ proc' = [proc EXCEPT ![p] = Idle]
    /\ UNCHANGED <<catalog, responses, cache, today, answered>>

ConcNext ==
    \/ \E p \in Procs : \E u \in Users : GenCheck(p, u)
    \/ \E p \in Procs : GenHistory(p)
    \/ \E p \in Procs : GenSelect(p)
    \/ \E p \in Procs : GenSave(p)

ConcSpec == Init /\ [][ConcNext]_vars

----------------------------------------------------------------------------
(* Concurrent requests: submit_prompt_response and get_today_prompts between
   their storage and cache calls *)

\* Lines 171-188: the load of today's set and the two checks.
SubLoad(p, u, pid) ==
    /\ proc[p] = Idle
    /\ IF SetsOf(u, today) = {}
       THEN /\ ret' = [op |-> "submit_prompt_response",
                       value |-> [error |-> "No prompt set found for today"], log |-> <<>>]
            /\ UNCHANGED proc
       ELSE IF ~PromptInSet(sets[FirstSetOf(u, today)], pid)
       THEN /\ ret' = [op |-> "submit_prompt_response",
                       value |-> [error |-> "Prompt not in today's set"], log |-> <<>>]
            /\ UNCHANGED proc
       ELSE /\ proc' = [proc EXCEPT ![p] =
                            [pc |-> "respond", user |-> u, prompt_id |-> pid,
                             doc |-> FirstSetOf(u, today),
                             prompt_set |-> sets[FirstSetOf(u, today)]]]
            /\ UNCHANGED ret
    /\ UNCHANGED <<catalog, sets, responses, cache, today, answered>>

\* Lines 193-205: prompt_response.save() inserts the response.
SubRespond(p) ==
    /\ proc[p].pc = "respond"
    /\ BagCardinality(responses) < MaxResponses
    /\ responses' = responses (+)
          SetToBag({[user_id |-> proc[p].user, prompt_id |-> proc[p].prompt_id,
                     responded_at |-> today]})
    /\ answered' = answered \cup {<<proc[p].user, proc[p].prompt_id, today>>}
    /\ proc' = [proc EXCEPT ![p].pc = "complete"]
    /\ UNCHANGED <<catalog, sets, cache, today, ret>>

\* prompt_set.save() of a loaded document: the fields the call changed are
\* written over the stored document, the list as a whole.
SaveChanged(stored, loaded, updated) ==
    [stored EXCEPT
        !.completed_prompt_ids = updated.completed_prompt_ids,
        !.completed_count = updated.completed_count,
        !.is_fully_completed =
            IF updated.is_fully_completed # loaded.is_fully_completed
            THEN updated.is_fully_completed ELSE @]

\* Lines 207-217: the completion update of the loaded document and its save.
SubComplete(p) ==
    /\ proc[p].pc = "complete"
    /\ LET loaded == proc[p].prompt_set
           updated == CompletionUpdate(loaded, proc[p].prompt_id)
       IN  /\ sets' = IF updated # loaded
                      THEN [sets EXCEPT ![proc[p].doc] = SaveChanged(@, loaded, updated)]
                      ELSE sets
           /\ proc' = [proc EXCEPT ![p].pc = "invalidate", ![p].prompt_set = updated]
    /\ UNCHANGED <<catalog, responses, cache, today, ret, answered>>

\* Lines 219-229: cache.delete and the return.
SubReturn(p) ==
    /\ proc[p].pc = "invalidate"
    /\ cache' = [cache EXCEPT ![proc[p].user] = None]
    /\ ret' = SubmitReturn(proc[p].prompt_set)
    /\ proc' = [proc EXCEPT ![p] = Idle]
    /\ UNCHANGED <<catalog, sets, responses, today, answered>>

\* Lines 150-156 of get_today_prompts: the cache lookup.
GetCache(p, u) ==
    /\ proc[p] = Idle
    /\ IF cache[u] # None
       THEN /\ ret' = [op |-> "get_today_prompts", value |-> cache[u], log |-> <<>>]
            /\ UNCHANGED proc
       ELSE /\ proc' = [proc EXCEPT ![p] = [pc |-> "generate", user |-> u]]
            /\ UNCHANGED ret
    /\ UNCHANGED <<catalog, sets, responses, cache, today, answered>>

\* Line 158: the call of generate_daily_prompts.
GetGenerate(p) ==
    /\ proc[p].pc = "generate"
    /\ LET u == proc[p].user
       IN  IF SetsOf(u, today) # {}
           THEN /\ proc' = [proc EXCEPT ![p] = [pc |-> "cache_set", user |-> u,
                                                prompt_set |-> sets[FirstSetOf(u, today)],
                                                log |-> <<>>]]
                /\ UNCHANGED <<catalog, sets>>
           ELSE /\ Len(sets) < MaxSets
                /\ \E o \in BuildPromptSet(u, UsedPromptIds(u)) :
                     /\ catalog' = o.catalog
                     /\ sets' = Append(sets, o.set)
                     /\ proc' = [proc EXCEPT ![p] = [pc |-> "cache_set", user |-> u,
                                                     prompt_set |-> o.set, log |-> o.log]]
    /\ UNCHANGED <<responses, cache, today, ret, answered>>

\* Lines 160-162: cache.set and the return.
GetCacheSet(p) ==
    /\ proc[p].pc = "cache_set"
    /\ cache' = [cache EXCEPT ![proc[p].user] = proc[p].prompt_set]
    /\ ret' = [op |-> "get_today_prompts", value |-> proc[p].prompt_set, log |-> proc[p].log]
    /\ proc' = [proc EXCEPT ![p] = Idle]
    /\ UNCHANGED <<catalog, sets, responses, today, answered>>

\* The requests of one user, as from two devices.
ReqNext ==
    \/ \E p \in Procs : \E pid \in PromptIdInputs : SubLoad(p, 1, pid)
    \/ \E p \in Procs : SubRespond(p)
    \/ \E p \in Procs : SubComplete(p)
    \/ \E p \in Procs : SubReturn(p)
    \/ \E p \in Procs : GetCache(p, 1)
    \/ \E p \in Procs : GetGenerate(p)
    \/ \E p \in Procs : GetCacheSet(p)

ReqSpec == Init /\ [][ReqNext]_vars

----------------------------------------------------------------------------
(* Concurrent requests: generate_daily_prompts with the loop of
   _generate_dynamic_prompts between its queries on the catalog *)

\* Lines 34-62: the lookup, the history, the count of available prompts and
\* the entry into _generate_dynamic_prompts.
ReplStart(p, u) ==
    /\ proc[p] = Idle
    /\ IF SetsOf(u, today) # {}
       THEN /\ ret' = GenerateReturn(sets[FirstSetOf(u, today)], <<>>)
            /\ UNCHANGED proc
       ELSE /\ proc' = [proc EXCEPT ![p] =
                            [pc |-> IF Cardinality(AvailablePrompts(catalog, UsedPromptIds(u)))
                                        < BatchSize
                                    THEN "check" ELSE "finish",
                             user |-> u, used |-> UsedPromptIds(u),
                             templates_used |-> {}, left |-> ReplenishCount,
                             created |-> 0, replenished |-> FALSE]]
            /\ UNCHANGED ret
    /\ UNCHANGED <<catalog, sets, responses, cache, today, answered>>

\* Lines 457-472 and 420-421: one iteration up to the exists() query of
\* _create_prompt_if_unique; a question that exists is skipped.
ReplCheck(p) ==
    /\ proc[p].pc = "check"
    /\ IF proc[p].left = 0
       THEN proc' = [proc EXCEPT ![p].pc = "finish", ![p].replenished = TRUE]
       ELSE LET ch == NextTemplateChoices(proc[p].templates_used)
            IN  \E t \in ch.from : \E q \in FormatQuestion(t) : \E c \in CategoryChoices :
                    IF QuestionExists(catalog, q)
                    THEN proc' = [proc EXCEPT ![p].templates_used = ch.used \cup {t},
                                              ![p].left = @ - 1]
                    ELSE proc' = [proc EXCEPT ![p] =
                                    [pc |-> "create", user |-> proc[p].user,
                                     used |-> proc[p].used,
                                     templates_used |-> ch.used \cup {t},
                                     left |-> proc[p].left, created |-> proc[p].created,
                                     replenished |-> FALSE,
                                     question |-> q, category |-> c]]
    /\ UNCHANGED <<catalog, sets, responses, cache, today, ret, answered>>

\* Lines 423-430: DailyPrompt.objects.create; the unique constraint on
\* question rejects a text inserted since the exists() query, and the
\* IntegrityError leaves generate_daily_prompts uncaught.
ReplCreate(p) ==
    /\ proc[p].pc = "create"
    /\ IF QuestionExists(catalog, proc[p].question)
       THEN /\ ret' = [op |-> "generate_daily_prompts",
                       value |-> [error |-> "IntegrityError"], log |-> <<>>]
            /\ proc' = [proc EXCEPT ![p] = Idle]
            /\ UNCHANGED catalog
       ELSE /\ catalog' = Append(catalog, [question |-> proc[p].question,
                                           category |-> proc[p].category,
                                           is_active |-> TRUE])
            /\ proc' = [proc EXCEPT ![p] =
                            [pc |-> "check", user |-> proc[p].user, used |-> proc[p].used,
                             templates_used |-> proc[p].templates_used,
                             left |-> proc[p].left - 1, created |-> proc[p].created + 1,
                             replenished |-> FALSE]]
            /\ UNCHANGED ret
    /\ UNCHANGED <<sets, responses, cache, today, answered>>

\* Lines 65-103: the re-query, the selection and the save of the set.
ReplFinish(p) ==
    /\ proc[p].pc = "finish"
    /\ Len(sets) < MaxSets
    /\ \E l \in AvailableLists(catalog, proc[p].used) :
         \E sel \in SelectDiversePrompts(catalog, l, BatchSize) :
            LET ps == NewPromptSet(proc[p].user, today, PromptsData(catalog, sel))
            IN  /\ sets' = Append(sets, ps)
                /\ ret' = GenerateReturn(ps,
                              IF proc[p].replenished
                              THEN << [level |-> "INFO", msg |-> "Generating",
                                       n |-> ReplenishCount],
                                      [level |-> "INFO", msg |-> "Created",
                                       n |-> proc[p].created] >>
                              ELSE <<>>)
    /\ proc' = [proc EXCEPT ![p] = Idle]
    /\ UNCHANGED <<catalog, responses, cache, today, answered>>

\* The two requests come from two different users.
ReplUser == [p1 |-> 1, p2 |-> 2]

ReplNext ==
    \/ \E p \in Procs : ReplStart(p, ReplUser[p])
    \/ \E p \in Procs : ReplCheck(p)
    \/ \E p \in Procs : ReplCreate(p)
    \/ \E p \in Procs : ReplFinish(p)

ReplSpec == Init /\ [][ReplNext]_vars

----------------------------------------------------------------------------
(* tasks.generate_daily_prompts_batch(user_ids) *)

\* An id for which User.objects.get raises User.DoesNotExist.
MissingUser == 3

\* The lists of user ids the task is called with.
BatchInputs ==
    UNION {[1..n -> Users \cup {MissingUser}] : n \in 1..MaxBatchLen}

\* Variant of BatchRecordFailure that leaves the loop at the first failure.
BatchAbortOnFailure(b, uid, e) ==
    [b EXCEPT !.results.failed = @ + 1,
              !.results.errors = Append(@, [user_id |-> uid, error |-> e]),
              !.log = Append(@, [level |-> "ERROR", msg |-> e, n |-> uid]),
              !.attempted = Append(@, uid),
              !.k = Len(b.user_ids) + 1]

\* Lines 175-178: the except branch, and on to the next id.
BatchRecordFailure(b, uid, e) ==
    [b EXCEPT !.results.failed = @ + 1,
              !.results.errors = Append(@, [user_id |-> uid, error |-> e]),
              !.log = Append(@, [level |-> "ERROR", msg |-> e, n |-> uid]),
              !.attempted = Append(@, uid),
              !.k = @ + 1]

\* Line 174: results['success'] += 1, and on to the next id.
BatchRecordSuccess(b, uid) ==
    [b EXCEPT !.results.success = @ + 1,
              !.attempted = Append(@, uid),
              !.k = @ + 1]

\* Lines 167-168: the task starts on worker p1 (no more once the model's
\* collection of sets is full).
BatchStart(user_ids) ==
    /\ proc["p1"] = Idle
    /\ Len(sets) < MaxSets
    /\ proc' = [proc EXCEPT !["p1"] =
                    [pc |-> "batch", user_ids |-> user_ids, k |-> 1,
                     results |-> [success |-> 0, failed |-> 0, errors |-> <<>>],
                     log |-> <<>>, attempted |-> <<>>]]
    /\ UNCHANGED <<catalog, sets, responses, cache, today, ret, answered>>

\* Lines 170-178: one iteration of the loop.  The user is missing, or a
\* store cannot be reached and the call raises, or generate_daily_prompts
\* runs to its end.
BatchStep ==
    /\ proc["p1"].pc = "batch"
    /\ proc["p1"].k <= Len(proc["p1"].user_ids)
    /\ LET b == proc["p1"]
           uid == b.user_ids[b.k]
       IN  IF uid \notin Users
           THEN /\ proc' = [proc EXCEPT !["p1"] = BatchRecordFailure(b, uid, "DoesNotExist")]
                /\ UNCHANGED <<catalog, sets>>
           ELSE \/ /\ proc' = [proc EXCEPT !["p1"] =
                                    BatchRecordFailure(b, uid, "storage error")]
                   /\ UNCHANGED <<catalog, sets>>
                \/ /\ IF SetsOf(uid, today) # {}
                      THEN UNCHANGED <<catalog, sets>>
                      ELSE /\ Len(sets) < MaxSets
                           /\ \E o \in BuildPromptSet(uid, UsedPromptIds(uid)) :
                                /\ catalog' = o.catalog
                                /\ sets' = Append(sets, o.set)
                   /\ proc' = [proc EXCEPT !["p1"] = BatchRecordSuccess(b, uid)]
    /\ UNCHANGED <<responses, cache, today, ret, answered>>

\* Lines 180-181: the summary is logged and returned.
BatchReturn ==
    /\ proc["p1"].pc = "batch"
    /\ proc["p1"].k > Len(proc["p1"].user_ids)
    /\ ret' = [op |-> "generate_daily_prompts_batch",
               value |-> proc["p1"].results,
               log |-> Append(proc["p1"].log,
                              [level |-> "INFO", msg |-> "Batch prompt generation",
                               n |-> proc["p1"].results.success]),
               user_ids |-> proc["p1"].user_ids,
               attempted |-> proc["p1"].attempted]
    /\ proc' = [proc EXCEPT !["p1"] = Idle]
    /\ UNCHANGED <<catalog, sets, responses, cache, today, answered>>

BatchNext ==
    \/ \E user_ids \in BatchInputs : BatchStart(user_ids)
    \/ BatchStep
    \/ BatchReturn

BatchSpec == Init /\ [][BatchNext]_vars

----------------------------------------------------------------------------
(* DashboardService._get_daily_prompt(user), core/services.py *)

\* DailyPrompt.objects.filter(is_active=True)
AllActivePrompts(cat) == {i \in DOMAIN cat : cat[i].is_active}

\* random.sample(all_prompts, min(3, len(all_prompts))): every list it can give.
DashboardSamples(cat) ==
    LET pool == AllActivePrompts(cat)
    IN  UNION {Perms(S) : S \in {T \in SUBSET pool :
                  Cardinality(T) = Min2(DashboardCount, Cardinality(pool))}}

\* The snapshot the dashboard stores: 'Reflection' for a prompt without
\* category.
DashboardPromptsData(cat, selected) ==
    [k \in DOMAIN selected |->
        [id |-> selected[k],
         question |-> cat[selected[k]].question,
         category |-> IF cat[selected[k]].category = NoCategory
                      THEN "Reflection" ELSE cat[selected[k]].category]]

DashboardReturn(id, total, answered_count) ==
    [op |-> "_get_daily_prompt",
     value |-> [id |-> id, total_prompts |-> total, answered_count |-> answered_count],
     log |-> <<>>]

\* The whole call: today's set is read, or created from a random sample of
\* the active prompts.
get_daily_prompt(u) ==
    /\ IF SetsOf(u, today) # {}
       THEN LET ps == sets[FirstSetOf(u, today)]
                unanswered == SelectSeq(ps.prompts,
                                 LAMBDA p : p.id \notin Range(ps.completed_prompt_ids))
            IN  /\ ret' = DashboardReturn(
                            IF unanswered # <<>> THEN unanswered[1].id ELSE 0,
                            Len(ps.prompts), Len(ps.completed_prompt_ids))
                /\ UNCHANGED sets
       ELSE IF AllActivePrompts(catalog) = {}
       THEN /\ ret' = DashboardReturn(0, 0, 0)
            /\ UNCHANGED sets
       ELSE /\ Len(sets) < MaxSets
            /\ \E sel \in DashboardSamples(catalog) :
                 /\ sets' = Append(sets,
                        NewPromptSet(u, today, DashboardPromptsData(catalog, sel)))
                 /\ ret' = DashboardReturn(sel[1], Len(sel), 0)
    /\ UNCHANGED <<catalog, responses, cache, today, answered, proc>>

DashNext ==
    \/ Next
    \/ \E u \in Users : get_daily_prompt(u)

DashSpec == Init /\ [][DashNext]_vars

----------------------------------------------------------------------------
(* The template picks of _generate_dynamic_prompts calls, pick by pick *)

\* Lines 451-455: the call starts with templates_used = set().
TemplateStart(p) ==
    /\ proc[p] = Idle
    /\ proc' = [proc EXCEPT ![p] = [pc |-> "templates", templates_used |-> {},
                                    picks |-> <<>>]]
    /\ UNCHANGED <<catalog, sets, responses, cache, today, ret, answered>>

\* Line 459: one call of _select_next_template; picks records what it
\* returned.
TemplatePick(p) ==
    /\ proc[p].pc = "templates"
    /\ Len(proc[p].picks) < MaxPicks
    /\ LET ch == NextTemplateChoices(proc[p].templates_used)
       IN  \E t \in ch.from :
             proc' = [proc EXCEPT ![p].templates_used = ch.used \cup {t},
                                  ![p].picks = Append(@, t)]
    /\ UNCHANGED <<catalog, sets, responses, cache, today, ret, answered>>

TemplateNext ==
    \/ \E p \in Procs : TemplateStart(p)
    \/ \E p \in Procs : TemplatePick(p)

TemplateSpec == Init /\ [][TemplateNext]_vars

----------------------------------------------------------------------------
(* _select_diverse_prompts on its own: every candidate pool of up to MaxPool
   prompts over three categories, every count up to MaxCount *)

PoolCategories == {"Gratitude", "Growth", NoCategory}

CandidatePools ==
    UNION {{[i \in 1..n |-> [question |-> "", category |-> c[i], is_active |-> TRUE]]
            : c \in [1..n -> PoolCategories]} : n \in 0..MaxPool}

SelInit ==
    /\ catalog \in CandidatePools
    /\ sets = <<>>
    /\ responses = EmptyBag
    /\ cache = NoCache
    /\ today = 1
    /\ ret = [op |-> "none"]
    /\ answered = {}
    /\ proc = [p \in Procs |-> Idle]

\* A call _select_diverse_prompts(list of the whole pool, count).
select_diverse_prompts(count) ==
    /\ \E sel \in SelectDiversePrompts(catalog, [i \in 1..Len(catalog) |-> i], count) :
         ret' = [op |-> "_select_diverse_prompts",
                 value |-> [count |-> count, selected |-> sel], log |-> <<>>]
    /\ UNCHANGED <<catalog, sets, responses, cache, today, answered, proc>>

SelNext == \E count \in 0..MaxCount : select_diverse_prompts(count)

SelSpec == SelInit /\ [][SelNext]_vars

----------------------------------------------------------------------------
(* PromptService.get_user_streak(user) *)

\* DailyPromptSetMongo.objects(user_id=u, date=d, is_fully_completed=True)
CompletedSetsOf(u, d) ==
    {i \in DOMAIN sets :
        sets[i].user_id = u /\ sets[i].date = d /\ sets[i].is_fully_completed}

\* Variant of StreakLoop that does not stop at a date without a fully
\* completed set: it counts such dates back to the first day.
RECURSIVE StreakLoopNoBreak(_, _, _)
StreakLoopNoBreak(u, current_date, streak) ==
    IF current_date < 1 THEN streak
    ELSE StreakLoopNoBreak(u, current_date - 1,
            IF CompletedSetsOf(u, current_date) = {} THEN streak ELSE streak + 1)

\* Variant of StreakLoop without the safety limit.
StreakLoopUncapped(u, current_date, streak) ==
    LET k == CHOOSE j \in 0..current_date :
                /\ CompletedSetsOf(u, current_date - j) = {}
                /\ \A i \in 0..(j - 1) : CompletedSetsOf(u, current_date - i) # {}
    IN  streak + k

\* The while loop entered at current_date with streak: iteration k looks up
\* the date current_date - k; the loop ends at the first k whose date has no
\* fully completed set (before the increment) or whose increment takes the
\* streak over StreakLimit (after it).
StreakLoop(u, current_date, streak) ==
    LET Ends(k) == \/ CompletedSetsOf(u, current_date - k) = {}
                   \/ streak + k + 1 > StreakLimit
        last == CHOOSE k \in 0..StreakLimit :
                    Ends(k) /\ \A i \in 0..(k - 1) : ~Ends(i)
    IN  IF CompletedSetsOf(u, current_date - last) = {}
        THEN streak + last
        ELSE streak + last + 1

\* DailyPromptSetMongo.objects(user_id=u, is_fully_completed=True).count()
TotalCompleted(u) ==
    Cardinality({i \in DOMAIN sets : sets[i].user_id = u /\ sets[i].is_fully_completed})

get_user_streak(u) ==
    /\ ret' = [op |-> "get_user_streak",
               value |-> [current_streak |-> StreakLoop(u, today, 0),
                          total_completed_days |-> TotalCompleted(u)],
               log |-> <<>>]
    /\ UNCHANGED <<catalog, sets, responses, cache, today, answered, proc>>

(* get_user_streak after StreakDays days of use: on every day user 1 had no
   set ("none"), a set with one prompt answered ("open") or a set with every
   prompt answered ("done"); user 2 completed every day or never came.  The
   set of day d holds the prompts (d-1)*BatchSize+1 .. d*BatchSize of a
   catalog of active prompts. *)

StreakCatalog ==
    [i \in 1..(StreakDays * BatchSize) |->
        [question |-> "Prompt " \o ToString(i), category |-> NoCategory, is_active |-> TRUE]]

DayPrompts(d) == [k \in 1..BatchSize |-> (d - 1) * BatchSize + k]

RECURSIVE CompleteFirst(_, _, _)
\* The set after the submits of the first n prompts of list ids.
CompleteFirst(ps, ids, n) ==
    IF n = 0 THEN ps ELSE CompletionUpdate(CompleteFirst(ps, ids, n - 1), ids[n])

DaySet(u, d, status) ==
    LET ps == [NewPromptSet(u, d, PromptsData(StreakCatalog, DayPrompts(d)))
                 EXCEPT !.generated_at = d]
    IN  CompleteFirst(ps, DayPrompts(d), IF status = "done" THEN BatchSize ELSE 1)

DayResponses(u, d, status) ==
    {[user_id |-> u, prompt_id |-> DayPrompts(d)[k], responded_at |-> d]
        : k \in 1..(IF status = "none" THEN 0 ELSE IF status = "done" THEN BatchSize ELSE 1)}

\* h[u][d] is the status of day d of user u.
RECURSIVE HistorySets(_, _)
HistorySets(h, d) ==
    IF d = 0 THEN <<>>
    ELSE HistorySets(h, d - 1)
            \o (IF h[1][d] = "none" THEN <<>> ELSE <<DaySet(1, d, h[1][d])>>)
            \o (IF h[2][d] = "none" THEN <<>> ELSE <<DaySet(2, d, h[2][d])>>)

HistoryResponses(h) ==
    UNION {DayResponses(u, d, h[u][d]) : u \in Users, d \in 1..StreakDays}

Histories ==
    {h \in [Users -> [1..StreakDays -> {"none", "open", "done"}]] :
        h[2] \in {[d \in 1..StreakDays |-> "none"], [d \in 1..StreakDays |-> "done"]}}

StreakInit ==
    /\ today = StreakDays
    /\ catalog = StreakCatalog
    /\ \E h \in Histories :
         /\ sets = HistorySets(h, StreakDays)
         /\ responses = SetToBag(HistoryResponses(h))
         /\ answered = {<<r.user_id, r.prompt_id, r.responded_at>> : r \in HistoryResponses(h)}
    /\ cache = NoCache
    /\ ret = [op |-> "none"]
    /\ proc = [p \in Procs |-> Idle]

StreakNext == \E u \in Users : get_user_streak(u)

StreakSpec == StreakInit /\ [][StreakNext]_vars

(* get_user_streak of a long-lived user: user 1 completed every one of the
   last n days, n around the safety limit; the day before the run has no set
   or a partly completed one, and the day before that may be completed.  The
   sets are as old as the run: the TTL monitor has not removed any. *)

CapDays == StreakLimit + CapSlack + 2

CapCatalog ==
    [i \in 1..(CapDays * BatchSize) |->
        [question |-> "Prompt " \o ToString(i), category |-> NoCategory, is_active |-> TRUE]]

CapDaySet(u, d, status) ==
    LET ps == [NewPromptSet(u, d, PromptsData(CapCatalog, DayPrompts(d)))
                 EXCEPT !.generated_at = d]
    IN  CompleteFirst(ps, DayPrompts(d), IF status = "done" THEN BatchSize ELSE 1)

\* Day 1 is older, day 2 is the gap, days 3 .. n+2 are the run.
CapHistory(n, gap, older) ==
    [d \in 1..(n + 2) |-> IF d = 1 THEN older ELSE IF d = 2 THEN gap ELSE "done"]

CapSets(h) ==
    LET days == SelectSeq([d \in DOMAIN h |-> d], LAMBDA d : h[d] # "none")
    IN  [k \in DOMAIN days |-> CapDaySet(1, days[k], h[days[k]])]

CapResponses(h) ==
    UNION {DayResponses(1, d, h[d]) : d \in DOMAIN h}

CapInit ==
    /\ catalog = CapCatalog
    /\ \E n \in (StreakLimit - CapSlack + 1)..(StreakLimit + CapSlack) :
       \E gap \in {"none", "open"} : \E older \in {"none", "done"} :
         LET h == CapHistory(n, gap, older)
         IN  /\ today = n + 2
             /\ sets = CapSets(h)
             /\ responses = SetToBag(CapResponses(h))
             /\ answered = {<<r.user_id, r.prompt_id, r.responded_at>> : r \in CapResponses(h)}
    /\ cache = NoCache
    /\ ret = [op |-> "none"]
    /\ proc = [p \in Procs |-> Idle]

CapSpec == CapInit /\ [][StreakNext]_vars

----------------------------------------------------------------------------
(* The catalog is maintained while the service runs: prompts are soft-deleted *)

\* Model.delete() of utils/model_abstracts.py on a DailyPrompt row.
DeactivatePrompt(i) ==
    /\ i \in DOMAIN catalog
    /\ catalog[i].is_active
    /\ catalog' = [catalog EXCEPT ![i].is_active = FALSE]
    /\ UNCHANGED <<sets, responses, cache, today, ret, answered, proc>>

AdminNext ==
    \/ \E u \in Users : generate_daily_prompts(u)
    \/ \E u \in Users : \E pid \in PromptIdInputs : submit_prompt_response(u, pid)
    \/ \E u \in Users : get_user_streak(u)
    \/ \E i \in DOMAIN catalog : DeactivatePrompt(i)

AdminSpec == Init /\ [][AdminNext]_vars

----------------------------------------------------------------------------
(* Vocabulary of the properties *)

Min(a, b) == IF a <= b THEN a ELSE b

IdsOf(ps) == {ps.prompts[k].id : k \in DOMAIN ps.prompts}

ActiveIds(cat) == {i \in DOMAIN cat : cat[i].is_active}

HasNoResponses(u) == ~\E r \in BagToSet(responses) : r.user_id = u

HasSetToday(u) == \E i \in DOMAIN sets : sets[i].user_id = u /\ sets[i].date = today

CategoryLabel(p) == IF p.category = NoCategory THEN "General" ELSE p.category

CompletionFields(ps) ==
    <<ps.completed_prompt_ids, ps.completed_count, ps.is_fully_completed>>

\* The prompts of set ps for which a response of its user and day is stored.
SubmittedIn(ps) ==
    {r.prompt_id : r \in {x \in BagToSet(responses) :
                            x.user_id = ps.user_id /\ x.responded_at = ps.date}}
        \cap IdsOf(ps)

----------------------------------------------------------------------------
(* C1: no prompt id appears in the prompts lists of two sets of one user
   generated for different dates.  The code excludes only answered prompts, so
   a prompt shown on one day and left unanswered is offered again. *)
C1_NoRepeatAcrossSets ==
    \A i, j \in DOMAIN sets :
        (sets[i].user_id = sets[j].user_id /\ sets[i].date # sets[j].date)
            => IdsOf(sets[i]) \cap IdsOf(sets[j]) = {}

(* C2: a generate_daily_prompts call for a (user, date) that has a set returns
   that stored set as it is, inserts no record, creates no catalog prompt and
   changes no field of the stored record. *)
C2_SecondCallReturnsFirst ==
    [][\A u \in Users :
        (HasSetToday(u) /\ generate_daily_prompts(u))
            => /\ \E i \in DOMAIN sets :
                    /\ sets[i].user_id = u /\ sets[i].date = today
                    /\ ret'.value = sets[i]
                    /\ ret'.value.prompts = sets[i].prompts
               /\ sets' = sets
               /\ catalog' = catalog]_vars

\* A generate call has returned a set that already held a completion.
C2_Witness ==
    /\ ret.op = "generate_daily_prompts"
    /\ ret.value.completed_count > 0
    /\ \E i \in DOMAIN sets : sets[i] = ret.value

(* C3: under any interleaving of generate_daily_prompts calls the store holds
   at most one set per (user_id, date).  The code checks and then inserts, and
   the (user_id, date) index is not unique. *)
C3_AtMostOneSetPerUserDate ==
    \A i, j \in DOMAIN sets :
        (sets[i].user_id = sets[j].user_id /\ sets[i].date = sets[j].date) => i = j

(* C4: every prompt of a generated set is an active catalog prompt, and a
   prompt the user answered never appears in a set generated after the answer,
   however old the answer is.  The response documents expire after one year. *)
C4_AnsweredPromptNeverReturns ==
    \A i \in DOMAIN sets :
        /\ \A p \in IdsOf(sets[i]) : catalog[p].is_active
        /\ \A a \in answered :
             (a[1] = sets[i].user_id /\ a[2] \in IdsOf(sets[i])) => sets[i].date <= a[3]

(* C5 as claimed: with no response history, no set for today and m < BatchSize
   active prompts, the new set has exactly BatchSize distinct prompts: all m
   existing ones and BatchSize - m newly created ones. *)
C5_KeepsAllExisting ==
    [][\A u \in Users :
        (/\ HasNoResponses(u) /\ ~HasSetToday(u)
         /\ Cardinality(ActiveIds(catalog)) < BatchSize
         /\ generate_daily_prompts(u))
            => LET ps == sets'[Len(sets')]
                   old == ActiveIds(catalog)
                   new == (Len(catalog) + 1)..Len(catalog')
               IN  /\ Len(ps.prompts) = BatchSize
                   /\ Cardinality(IdsOf(ps)) = BatchSize
                   /\ old \subseteq IdsOf(ps)
                   /\ Cardinality(IdsOf(ps) \cap new) = BatchSize - Cardinality(old)]_vars

(* C5 as amended: in that case, with c the number of prompts the replenisher
   created, the new set has exactly min(BatchSize, m + c) distinct prompts, each
   an existing active prompt or a newly created one; the m existing prompts
   are all in it when m + c <= BatchSize, and need not be otherwise. *)
C5_BatchFromExistingAndCreated ==
    [][\A u \in Users :
        (/\ HasNoResponses(u) /\ ~HasSetToday(u)
         /\ Cardinality(ActiveIds(catalog)) < BatchSize
         /\ generate_daily_prompts(u))
            => LET ps == sets'[Len(sets')]
                   old == ActiveIds(catalog)
                   new == (Len(catalog) + 1)..Len(catalog')
                   n == Min(BatchSize, Cardinality(old) + Cardinality(new))
               IN  /\ Len(sets') = Len(sets) + 1
                   /\ ps.user_id = u /\ ps.date = today
                   /\ Len(ps.prompts) = n
                   /\ Cardinality(IdsOf(ps)) = n
                   /\ IdsOf(ps) \subseteq old \cup new
                   /\ \A p \in new : catalog'[p].is_active
                   /\ (Cardinality(old) + Cardinality(new) <= BatchSize
                         => old \subseteq IdsOf(ps))]_vars

\* A user without history got a full replenished set that leaves out the
\* curated active prompt 1.
C5_Witness ==
    /\ ret.op = "generate_daily_prompts"
    /\ ret.log # <<>>
    /\ ret.log[2].n >= BatchSize
    /\ HasNoResponses(ret.value.user_id)
    /\ Len(ret.value.prompts) = BatchSize
    /\ 1 \notin IdsOf(ret.value)

(* C6: when fewer than BatchSize candidates remain after the replenisher ran,
   generate_daily_prompts returns the short set without raising and surfaces
   the shortfall as a warning.  The code logs two INFO records and nothing
   else. *)
C6_ShortfallSurfaced ==
    (/\ ret.op = "generate_daily_prompts"
     /\ ret.log # <<>>
     /\ Len(ret.value.prompts) < BatchSize)
        => \E k \in DOMAIN ret.log : ret.log[k].level = "WARNING"

(* C7: _select_diverse_prompts(candidates, k) returns prompts of at least
   min(k, number of categories among the candidates) different categories,
   prompts without category counting as the category 'General'. *)
C7_Diversity ==
    ret.op = "_select_diverse_prompts"
        => Cardinality({CategoryLabel(catalog[i]) : i \in Range(ret.value.selected)})
             >= Min(ret.value.count,
                    Cardinality({CategoryLabel(catalog[i]) : i \in DOMAIN catalog}))

\* Two prompts of two categories were selected from a pool that holds more
\* prompts of the first category than were asked for.
C7_Witness ==
    /\ ret.op = "_select_diverse_prompts"
    /\ ret.value.count = 2
    /\ Len(ret.value.selected) = 2
    /\ Cardinality({i \in DOMAIN catalog : catalog[i].category = "Gratitude"}) >= 3
    /\ Cardinality({CategoryLabel(catalog[i]) : i \in DOMAIN catalog}) = 2
    /\ Cardinality({CategoryLabel(catalog[i]) : i \in Range(ret.value.selected)}) = 2

(* C8: completed_count of a set never decreases, and a submit for a prompt id
   already in completed_prompt_ids leaves completed_prompt_ids, completed_count
   and is_fully_completed of every set unchanged. *)
C8_CompletionMonotone ==
    [][/\ \A i \in DOMAIN sets :
            i \in DOMAIN sets' /\ sets'[i].completed_count >= sets[i].completed_count
       /\ \A u \in Users : \A pid \in PromptIdInputs :
            (/\ \E i \in DOMAIN sets :
                    /\ sets[i].user_id = u /\ sets[i].date = today
                    /\ pid \in Range(sets[i].completed_prompt_ids)
             /\ submit_prompt_response(u, pid))
                => /\ DOMAIN sets' = DOMAIN sets
                   /\ \A i \in DOMAIN sets :
                        CompletionFields(sets'[i]) = CompletionFields(sets[i])]_vars

\* The same prompt was submitted twice on one day and counts once.
C8_Witness ==
    \E i \in DOMAIN sets : \E r \in BagToSet(responses) :
        /\ CopiesIn(r, responses) >= 2
        /\ r.user_id = sets[i].user_id /\ r.responded_at = sets[i].date
        /\ sets[i].completed_count = 1
        /\ sets[i].completed_prompt_ids = <<r.prompt_id>>

(* C9: a set of n >= 1 prompts is fully completed exactly when all n of its
   prompts have been submitted, and then completed_count = n. *)
C9_FullCompletion ==
    \A i \in DOMAIN sets :
        Len(sets[i].prompts) >= 1
            => /\ sets[i].is_fully_completed <=> (SubmittedIn(sets[i]) = IdsOf(sets[i]))
               /\ sets[i].is_fully_completed
                    => sets[i].completed_count = Len(sets[i].prompts)

\* A full-size set after the submit of its last prompt.
C9_Witness ==
    \E i \in DOMAIN sets :
        /\ Len(sets[i].prompts) = BatchSize
        /\ sets[i].is_fully_completed
        /\ sets[i].completed_count = BatchSize
        /\ ret.op = "submit_prompt_response"
        /\ ret.value = [completed_count |-> BatchSize, total_prompts |-> BatchSize,
                        is_fully_completed |-> TRUE]

(* C10: a submit with a prompt id that is not in today's set of the user raises
   "Prompt not in today's set" and leaves the responses, every set and the
   cache as they were, also when the id is in a set of another date or user. *)
C10_InvalidReferenceRejected ==
    [][\A u \in Users : \A pid \in PromptIdInputs :
        (/\ \E i \in DOMAIN sets :
                /\ sets[i].user_id = u /\ sets[i].date = today
                /\ pid \notin IdsOf(sets[i])
         /\ submit_prompt_response(u, pid))
            => /\ ret'.value = [error |-> "Prompt not in today's set"]
               /\ responses' = responses
               /\ sets' = sets
               /\ cache' = cache
               /\ catalog' = catalog]_vars

\* The error was raised while responses, a cached set and a set of the other
\* user with other prompts were there to be changed.
C10_Witness ==
    /\ ret.op = "submit_prompt_response"
    /\ ret.value = [error |-> "Prompt not in today's set"]
    /\ responses # EmptyBag
    /\ \E u \in Users : cache[u] # None
    /\ \E i, j \in DOMAIN sets :
         /\ sets[i].user_id # sets[j].user_id
         /\ sets[i].date = today /\ sets[j].date = today
         /\ IdsOf(sets[j]) \ IdsOf(sets[i]) # {}

(* C11: a submit for a user who has no set for today raises "No prompt set
   found for today", generates no set, stores no response and changes no set. *)
C11_NoSetRejected ==
    [][\A u \in Users : \A pid \in PromptIdInputs :
        (~HasSetToday(u) /\ submit_prompt_response(u, pid))
            => /\ ret'.value = [error |-> "No prompt set found for today"]
               /\ sets' = sets
               /\ responses' = responses
               /\ catalog' = catalog
               /\ cache' = cache]_vars

\* The error was raised on a day for which nobody has a set, while both users
\* have a set of the day before and responses are stored.
C11_Witness ==
    /\ ret.op = "submit_prompt_response"
    /\ ret.value = [error |-> "No prompt set found for today"]
    /\ today = 2
    /\ Len(sets) = 2
    /\ \A i \in DOMAIN sets : sets[i].date = 1
    /\ sets[1].user_id # sets[2].user_id
    /\ responses # EmptyBag

(* C13: at most one response record is stored per (user_id, prompt_id).  The
   code saves a new PromptResponseMongo on every valid submit, before and
   apart from the membership test that guards the completion update. *)
C13_OneResponsePerUserPrompt ==
    \A r1, r2 \in BagToSet(responses) :
        /\ CopiesIn(r1, responses) = 1
        /\ (r1.user_id = r2.user_id /\ r1.prompt_id = r2.prompt_id) => r1 = r2

(* C16: no two catalog prompts, active or not, have the same question, and a
   replenishment that meets existing questions skips them: the call returns a
   set and reports at most as many created prompts as it was asked for. *)
C16_UniqueQuestions ==
    /\ \A i, j \in DOMAIN catalog : catalog[i].question = catalog[j].question => i = j
    /\ (ret.op = "generate_daily_prompts" /\ ret.log # <<>>)
         => /\ "error" \notin DOMAIN ret.value
            /\ ret.log[2].n <= ret.log[1].n

\* A replenishment that was asked for ReplenishCount prompts created fewer,
\* because questions it formed were in the catalog already.
C16_Witness ==
    /\ ret.op = "generate_daily_prompts"
    /\ ret.log # <<>>
    /\ ret.log[2].n < ReplenishCount
    /\ Len(catalog) > Len(CuratedPrompts)

(* C17: when two generate_daily_prompts calls for one (user_id, date) both saw
   no set, the call that saves second returns the record that was stored
   first.  The code returns the document the call built itself. *)
C17_LoserReturnsWinner ==
    [][\A p \in Procs :
        (/\ proc[p].pc = "save"
         /\ SetsOf(proc[p].user, today) # {}
         /\ GenSave(p))
            => /\ "error" \notin DOMAIN ret'.value
               /\ ret'.value.prompts = sets[FirstSetOf(proc[p].user, today)].prompts]_vars

(* C20: a stored response record is never removed, so the set of prompt ids
   generate_daily_prompts excludes for a user only grows.  The TTL index on
   responded_at removes a response one year after it was stored. *)
C20_LedgerAppendOnly ==
    [][/\ \A r \in BagToSet(responses) : CopiesIn(r, responses') >= CopiesIn(r, responses)
       /\ \A u \in Users :
            {r.prompt_id : r \in {x \in BagToSet(responses) : x.user_id = u}}
                \subseteq {r.prompt_id : r \in {x \in BagToSet(responses') : x.user_id = u}}]_vars

(* C12: get_user_streak returns as current_streak the number n such that each
   of the dates today, today-1, ..., today-(n-1) has a fully completed set of
   the user and the date today-n has none; fully completed sets before that
   gap are not counted, and today without a fully completed set gives 0. *)
C12_StreakIsLeadingRun ==
    [][\A u \in Users :
        get_user_streak(u)
            => LET n == ret'.value.current_streak
                   done(d) == \E i \in DOMAIN sets :
                                /\ sets[i].user_id = u /\ sets[i].date = d
                                /\ sets[i].is_fully_completed
               IN  /\ n \in 0..StreakDays
                   /\ \A k \in 0..(n - 1) : done(today - k)
                   /\ ~done(today - n)]_vars

\* The streak is 2 although three days were fully completed: the day before
\* yesterday has a set that is not fully completed, or none.
C12_Witness ==
    /\ ret.op = "get_user_streak"
    /\ ret.value.current_streak = 2
    /\ ret.value.total_completed_days = 3
    /\ \E i \in DOMAIN sets :
         sets[i].user_id = 1 /\ sets[i].date = today - 2 /\ ~sets[i].is_fully_completed

(* C14: after concurrent submits of one user for different prompts of today's
   set have all returned, every submitted prompt is in completed_prompt_ids
   and completed_count counts them all.  Each call saves the list it loaded
   plus its own prompt, so the later save overwrites the earlier one. *)
C14_NoLostCompletion ==
    (\A p \in Procs : proc[p] = Idle)
        => \A i \in DOMAIN sets :
             /\ SubmittedIn(sets[i]) \subseteq Range(sets[i].completed_prompt_ids)
             /\ sets[i].completed_count = Cardinality(SubmittedIn(sets[i]))

(* C15: when no submit is in flight, a get_today_prompts call that starts and
   is served from the cache returns the completion fields of the stored set.
   A get_today_prompts call that read the set before a submit saved can write
   its copy into the cache after the submit deleted the key. *)
C15_NoStaleCache ==
    [][\A p \in Procs : \A u \in Users :
        (/\ \A q \in Procs : proc[q] = Idle
         /\ cache[u] # None
         /\ SetsOf(u, today) # {}
         /\ GetCache(p, u))
            => CompletionFields(ret'.value)
                 = CompletionFields(sets[FirstSetOf(u, today)])]_vars

(* C18: when generate_daily_prompts calls of two users replenish the catalog
   at the same time, no call fails and the question texts stay unique.  The
   texts stay unique through the unique constraint, which makes the create of
   the slower call raise. *)
C18_ConcurrentReplenishSucceeds ==
    /\ \A i, j \in DOMAIN catalog : catalog[i].question = catalog[j].question => i = j
    /\ ret.op = "generate_daily_prompts" => "error" \notin DOMAIN ret.value

(* C19: generate_daily_prompts_batch attempts the generation for every id of
   its list, in order, whatever failed before; every failure is recorded in
   errors, and on return success + failed is the number of ids. *)
C19_BatchIsolatesFailures ==
    ret.op = "generate_daily_prompts_batch"
        => /\ ret.attempted = ret.user_ids
           /\ ret.value.success + ret.value.failed = Len(ret.user_ids)
           /\ Len(ret.value.errors) = ret.value.failed
           /\ \A k \in DOMAIN ret.value.errors :
                ret.value.errors[k].user_id \in Range(ret.user_ids)

\* A batch of MaxBatchLen ids whose first id failed and whose last id got its
\* set generated.
C19_Witness ==
    /\ ret.op = "generate_daily_prompts_batch"
    /\ Len(ret.user_ids) = MaxBatchLen
    /\ ret.value.failed >= 1
    /\ ret.value.errors[1].user_id = ret.user_ids[1]
    /\ ret.value.success >= 1
    /\ ret.user_ids[MaxBatchLen] \in Users
    /\ \A k \in DOMAIN ret.value.errors :
         ret.value.errors[k].user_id # ret.user_ids[MaxBatchLen]
    /\ \E i \in DOMAIN sets :
         sets[i].user_id = ret.user_ids[MaxBatchLen] /\ sets[i].date = today

(* C21: whichever entry point created it, a stored set holds no prompt its
   user had answered before the date of the set.  The dashboard creates
   today's set itself, from a random sample of all active prompts. *)
C21_EverySetExcludesAnswered ==
    \A i \in DOMAIN sets : \A a \in answered :
        (a[1] = sets[i].user_id /\ a[3] < sets[i].date) => a[2] \notin IdsOf(sets[i])

(* C22: in every set, is_fully_completed is TRUE exactly when completed_count
   equals the number of prompts of the set.  A set generated without prompts
   has completed_count = 0 = len(prompts) and is_fully_completed = False. *)
C22_FullyCompletedIffCountIsTotal ==
    \A i \in DOMAIN sets :
        sets[i].is_fully_completed <=> (sets[i].completed_count = Len(sets[i].prompts))

(* C26: the prompts list of a stored set (ids, order, snapshot fields) is left
   unchanged by every later step: submits, streak reads, repeated and new
   generations with their replenishment, and the soft-delete of the catalog
   prompts it was copied from. *)
C26_PromptsListImmutable ==
    [][\A i \in DOMAIN sets :
        /\ i \in DOMAIN sets'
        /\ sets'[i].prompts = sets[i].prompts
        /\ sets'[i].user_id = sets[i].user_id
        /\ sets'[i].date = sets[i].date]_vars

\* A set with an answered prompt still shows a prompt that has been
\* soft-deleted since, after the catalog grew by dynamic prompts.
C26_Witness ==
    \E i \in DOMAIN sets :
        /\ sets[i].completed_count >= 1
        /\ \E k \in DOMAIN sets[i].prompts :
             /\ ~catalog[sets[i].prompts[k].id].is_active
             /\ sets[i].prompts[k].question = catalog[sets[i].prompts[k].id].question
        /\ Len(catalog) > Len(CuratedPrompts)
        /\ ret.op = "get_user_streak"

C24_SelectionSizeAndMembership ==
    ret.op = "_select_diverse_prompts"
        => LET sel == ret.value.selected
           IN  /\ Len(sel) = Min(ret.value.count, Len(catalog))
               /\ \A a, b \in DOMAIN sel : sel[a] = sel[b] => a = b
               /\ Range(sel) \subseteq DOMAIN catalog
               /\ Len(catalog) <= ret.value.count => Range(sel) = DOMAIN catalog

\* Three prompts were selected from four candidates of one category: the
\* second pass supplied two of them.
C24_Witness ==
    /\ ret.op = "_select_diverse_prompts"
    /\ ret.value.count = 3
    /\ Len(catalog) = 4
    /\ Cardinality({CategoryLabel(catalog[i]) : i \in DOMAIN catalog}) = 1
    /\ Len(ret.value.selected) = 3

(* C25: every result of _select_diverse_prompts is one that repeated category
   round-robin could give: for any two categories the numbers of selected
   prompts differ by at most 1, unless the category with fewer selected
   prompts has all its candidates selected.  The code takes one prompt per
   category once and fills the rest at random from all that remain. *)
C25_RoundRobinBalance ==
    ret.op = "_select_diverse_prompts"
        => LET sel == Range(ret.value.selected)
               names == {CategoryLabel(catalog[i]) : i \in DOMAIN catalog}
               all(c) == {i \in DOMAIN catalog : CategoryLabel(catalog[i]) = c}
               cnt(c) == Cardinality(all(c) \cap sel)
           IN  \A c, d \in names :
                 cnt(c) + 1 < cnt(d) => all(c) \subseteq sel

(* C27: a set that is fully completed stays stored and fully completed in
   every later state.  The TTL index on generated_at removes a set 90 days
   after its generation. *)
C27_FullyCompletedIsTerminal ==
    [][\A i \in DOMAIN sets :
        sets[i].is_fully_completed
            => \E j \in DOMAIN sets' :
                 /\ sets'[j].user_id = sets[i].user_id
                 /\ sets'[j].date = sets[i].date
                 /\ sets'[j].is_fully_completed]_vars

(* C28: a generate_daily_prompts call that runs _generate_dynamic_prompts asks
   it for ReplenishCount prompts; the catalog keeps its rows and grows by
   exactly the prompts the call reports as created, at most ReplenishCount,
   all of them active and with questions the catalog did not hold. *)
C28_CreatedIsCatalogGrowth ==
    [][\A u \in Users :
        (generate_daily_prompts(u) /\ ret'.log # <<>>)
            => /\ ret'.log[1].n = ReplenishCount
               /\ Len(catalog') >= Len(catalog)
               /\ SubSeq(catalog', 1, Len(catalog)) = catalog
               /\ ret'.log[2].n = Len(catalog') - Len(catalog)
               /\ ret'.log[2].n <= ReplenishCount
               /\ \A i \in (Len(catalog) + 1)..Len(catalog') :
                    /\ catalog'[i].is_active
                    /\ ~QuestionExists(catalog, catalog'[i].question)]_vars

\* A replenishment that created nothing: every question it formed was in
\* the catalog, which holds dynamic prompts of an earlier call.
C28_Witness ==
    /\ ret.op = "generate_daily_prompts"
    /\ ret.log # <<>>
    /\ ret.log[1].n = ReplenishCount
    /\ ret.log[2].n = 0
    /\ Len(catalog) >= Len(CuratedPrompts) + 1

(* C30: under any interleaving of submit_prompt_response calls, in every set
   completed_prompt_ids holds no duplicate and only ids of prompts of the set,
   completed_count is the number of ids in it, and
   0 <= completed_count <= number of prompts. *)
C30_CompletionFieldsConsistent ==
    \A i \in DOMAIN sets :
        LET ids == sets[i].completed_prompt_ids
        IN  /\ \A a, b \in DOMAIN ids : ids[a] = ids[b] => a = b
            /\ Range(ids) \subseteq IdsOf(sets[i])
            /\ sets[i].completed_count = Len(ids)
            /\ sets[i].completed_count >= 0
            /\ sets[i].completed_count <= Len(sets[i].prompts)

\* Two submits of one user ran interleaved and have returned: two responses
\* are stored for today's set and its completion fields hold one id.
C30_Witness ==
    /\ \A p \in Procs : proc[p] = Idle
    /\ ret.op = "submit_prompt_response"
    /\ \E i \in DOMAIN sets :
         /\ BagCardinality(responses) = 2
         /\ \A r \in BagToSet(responses) :
              r.user_id = sets[i].user_id /\ r.prompt_id \in IdsOf(sets[i])
         /\ Cardinality(SubmittedIn(sets[i])) = 2
         /\ sets[i].completed_count = 1

(* C29: within one _generate_dynamic_prompts call, with T templates, the picks
   numbered jT+1 .. (j+1)T of _select_next_template are pairwise different for
   every j, and the used-set loses elements only at a pick made when it held
   all T templates. *)
C29_TemplateCycles ==
    [][\A p \in Procs :
        (proc[p].pc = "templates" /\ TemplatePick(p) /\ proc'[p] # proc[p])
            => LET T == Len(PromptTemplates)
                   picks == proc'[p].picks
               IN  /\ \A a, b \in DOMAIN picks :
                        (a < b /\ (a - 1) \div T = (b - 1) \div T) => picks[a] # picks[b]
                   /\ ~(proc[p].templates_used \subseteq proc'[p].templates_used)
                        => proc[p].templates_used = DOMAIN PromptTemplates]_vars

\* A call went through the library once and began again: the first pick of
\* the second round is the template picked last in the first round.
C29_Witness ==
    \E p \in Procs :
        /\ proc[p].pc = "templates"
        /\ Len(proc[p].picks) > Len(PromptTemplates)
        /\ proc[p].picks[Len(PromptTemplates) + 1] = proc[p].picks[Len(PromptTemplates)]
        /\ proc[p].templates_used = {proc[p].picks[Len(PromptTemplates) + 1]}
====
